---- MODULE Spec2Model ----
(***************************************************************************)
(* Availability resolution and UI reconciliation of the enhancedchat page. *)
(* The page script keeps module-level flags (businessHoursValue,           *)
(* businessHoursSource, isWithinBusinessHours, noAgentsAvailable), reacts  *)
(* to the Salesforce Embedded Messaging window events, polls               *)
(* utilAPI.isWithinBusinessHours() on a chain of timers and toggles the    *)
(* chat button and the "Leave a Message" button.                           *)
(*                                                                         *)
(* JavaScript values are modelled by tags: "true" and "false" are the two  *)
(* booleans, "undefined", "null", "str" (a string such as "true") and      *)
(* "num" (a number such as 1) are the values typeof rejects.               *)
(***************************************************************************)
EXTENDS Integers, Sequences, FiniteSets, TLC

\* ------------------------------------------------------------------ bounds
\* How many attempt chains (onEmbeddedMessagingReady firings that find
\* businessHoursValue still null) a behaviour may start.
MaxChains == 2

\* The latest time, in units of Granule, at which a chain may start.
MaxStart == 1

\* How many messaging events the header may dispatch in a behaviour.
MaxDispatched == 4

\* ------------------------------------------------------- program constants
maxAttempts == 5

\* The fallback defaulting to "chat unavailable".
fallbackValue_False == "false"

\* The value of the final fallback, setBusinessHours(true, 'default_fallback').
fallbackValue == "true"

\* Exponential backoff in place of the linear schedule.
delays_Exponential == <<1000, 2000, 4000, 8000, 16000>>

delays == <<1000, 2000, 3000, 4000, 5000>>

\* Clock resolution in ms: every delay is a multiple of the first one.
Granule == delays[1]

\* No timer pending in a chain.
NoTimer == 0 - 1

\* ------------------------------------------------------------- JS values
Booleans == {"true", "false"}

NonBooleans == {"undefined", "null", "str", "num"}

\* event.detail of onEmbeddedMessagingWithinBusinessHours: "missing" is an
\* event without detail, otherwise the tag of detail.withinBusinessHours.
EventDetails == {"missing"} \cup NonBooleans \cup Booleans

\* What one call of utilAPI.isWithinBusinessHours() can do: return a boolean,
\* return undefined, or throw.
ApiResults == {"true", "false", "undefined", "throw"}

Sources == {"event", "hours_started_event", "hours_ended_event", "api", "default_fallback"}

typeof(value) == IF value \in Booleans THEN "boolean" ELSE "other"

\* event.detail?.withinBusinessHours
withinBusinessHours(detail) == IF detail = "missing" THEN "undefined" ELSE detail

VARIABLES
  businessHoursValue,     \* "null" | "true" | "false"
  businessHoursSource,    \* "null" | a member of Sources
  isWithinBusinessHours,  \* "true" | "false"
  noAgentsAvailable,      \* BOOLEAN
  utilAPI,                \* embeddedservice_bootstrap.utilAPI exists (button created)
  chatButtonVisible,      \* the Salesforce chat button is shown
  offlineButtonVisible,   \* #leaveMessageButton has class "show"
  now,                    \* clock, ms
  chains,                 \* one record per tryApiCheck closure
  apiCalls,               \* calls of utilAPI.isWithinBusinessHours() so far
  rendered,               \* the handler that ran last called updateChatAvailability
  last,                   \* the handler that ran last, and its input
  chatLaunched,           \* utilAPI.launchChat() has been called
  sessionWait,            \* sessionWaitingStartTime: "unset", or set "fresh" / "expired"
  hadAgent,               \* the session was Active with agentInfo
  signal,                 \* the latest session status update: its event.detail, and
                          \* chatLaunched and noAgentsAvailable when it arrived
  offlineFormOpen,        \* #offlineFormContainer has class "show"
  detection,              \* the flags of the guide's combined detection pattern
  prechatData,            \* the visitor's prechat data
  isAuthenticatedMode,    \* the authentication mode toggle is on
  hiddenFields,           \* what prechatAPI.setHiddenPrechatFields() was last given
  prechatEditor,          \* the fields of the prechat editor's form while the modal is open
  launchPending,          \* the click handler's 100 ms timer before launchChat() is pending
  submission,             \* the offline form's fields, submit button, pending fetch,
                          \* success message and timers
  header                  \* CapellaMessagingHeader: showMenu and the events dispatched

vars == <<businessHoursValue, businessHoursSource, isWithinBusinessHours,
          noAgentsAvailable, utilAPI, chatButtonVisible, offlineButtonVisible,
          now, chains, apiCalls, rendered, last,
          chatLaunched, sessionWait, hadAgent, signal, offlineFormOpen, detection,
          prechatData, isAuthenticatedMode, hiddenFields, prechatEditor, launchPending,
          submission, header>>

ui == <<chatButtonVisible, offlineButtonVisible>>

resolver == <<businessHoursValue, businessHoursSource, isWithinBusinessHours>>

\* The prechat data, the mode they are sent in, and what was sent.
prechat == <<prechatData, isAuthenticatedMode, hiddenFields, prechatEditor, launchPending>>

\* What only the visitor's actions on the offline form and the prechat data,
\* and the guide's detection pattern, read or write.
visitor == <<offlineFormOpen, detection, prechatData, isAuthenticatedMode, hiddenFields,
            prechatEditor, launchPending,
            submission, header>>

\* What only the session monitor, the launch of the chat and the visitor's
\* actions read or write.
monitor == <<chatLaunched, sessionWait, hadAgent, signal, offlineFormOpen, detection,
             prechatData, isAuthenticatedMode, hiddenFields, prechatEditor, launchPending,
             submission, header>>

\* No session status update has arrived yet.
NoSignal ==
  [detail |-> FALSE, status |-> "none", reason |-> "none",
   routingResult |-> "none", agentInfo |-> FALSE,
   launched |-> FALSE, demoted |-> FALSE, again |-> FALSE]

\* let detectionActive = false; let fallbackTriggered = false;
\* let conversationStarted = false; no listener or timeout of
\* enableOfflineDetection is registered and the fallback is not shown.
NoDetection ==
  [detectionActive |-> FALSE, fallbackTriggered |-> FALSE,
   conversationStarted |-> FALSE, listening |-> FALSE, timeout |-> FALSE,
   fallbackShown |-> FALSE]

\* The values the prechat editor can store in each field of prechatData.
PrechatInputs ==
  [email : {"dogz@mailinator.com", "other@example.com"},
   firstName : {"Chat", "Jane"}, lastName : {"TestUser", "Roe"},
   subject : {"Chat Inquiry from Website", "Other"},
   chat_source__c : {"Website", "App"}]

\* An email field that fails the form's validation.
InvalidEmail == "not an email"

\* What the fields of the editor's form can hold.
FormInputs ==
  [email : {"dogz@mailinator.com", "other@example.com", InvalidEmail},
   firstName : {"Chat", "Jane"}, lastName : {"TestUser", "Roe"},
   subject : {"Chat Inquiry from Website", "Other"},
   chat_source__c : {"Website", "App"}]

\* let prechatData = {...}
DefaultPrechatData ==
  [email |-> "dogz@mailinator.com", firstName |-> "Chat", lastName |-> "TestUser",
   subject |-> "Chat Inquiry from Website", chat_source__c |-> "Website"]

\* setHiddenPrechatFields() has not been called.
NotSent == <<>>

\* The offline form as the page loads it: empty fields, the submit button
\* enabled with its label, no fetch pending, no success message, no timer.
NoSubmission ==
  [label |-> "Submit", disabled |-> FALSE, filled |-> FALSE, fetch |-> FALSE,
   success |-> FALSE, resetTimer |-> FALSE, hideTimer |-> FALSE]

\* @track showMenu = false; no messaging event dispatched yet.
NewHeader == [showMenu |-> FALSE, dispatched |-> <<>>]

\* The prechat editor's modal is hidden; while it is shown prechatEditor is
\* <<fields>>, the values in its form.
Closed == <<>>

\* getHiddenFieldsForMode(): the hidden prechat fields, by name, for the mode
\* and the prechat data.
getHiddenFieldsForMode(authenticated, data) ==
  IF authenticated
    THEN ("_email" :> data.email) @@ ("email_custom" :> data.email)
         @@ ("_firstName" :> data.firstName) @@ ("_lastName" :> data.lastName)
         @@ ("subject" :> data.subject) @@ ("chat_source__c" :> data.chat_source__c)
    ELSE ("email_custom" :> data.email) @@ ("chat_source__c" :> data.chat_source__c)

\* ---------------------------------------------------------------- state
Init ==
  /\ businessHoursValue = "null"
  /\ businessHoursSource = "null"
  /\ isWithinBusinessHours = "true"
  /\ noAgentsAvailable = FALSE
  /\ utilAPI = FALSE
  /\ chatButtonVisible = FALSE
  /\ offlineButtonVisible = FALSE
  /\ now = 0
  /\ chains = <<>>
  /\ apiCalls = 0
  /\ rendered = FALSE
  /\ last = [ev |-> "load", arg |-> "none"]
  /\ chatLaunched = FALSE
  /\ sessionWait = "unset"
  /\ hadAgent = FALSE
  /\ signal = NoSignal
  /\ offlineFormOpen = FALSE
  /\ detection = NoDetection
  /\ prechatData = DefaultPrechatData
  /\ isAuthenticatedMode = TRUE
  /\ hiddenFields = NotSent
  /\ prechatEditor = Closed
  /\ launchPending = FALSE
  /\ submission = NoSubmission
  /\ header = NewHeader

\* ------------------------------------------------------------- renderer
\* utilAPI.showChatButton() is called only when utilAPI exists; otherwise the
\* call is skipped with a warning and the button stays as it was.
showChatButton(api, chat) == IF api THEN TRUE ELSE chat

hideChatButton(api, chat) == IF api THEN FALSE ELSE chat

\* A showOfflineButton that flips the display of the button.
showOfflineButton_Toggle == ~offlineButtonVisible

showOfflineButton == TRUE

hideOfflineButton == FALSE

\* An availability that ignores noAgentsAvailable.
isAvailable_HoursOnly(within, noAgents) == within = "true"

\* isWithinBusinessHours && !noAgentsAvailable
isAvailable(within, noAgents) == within = "true" /\ ~noAgents

\* updateChatAvailability that forgets to hide the other button.
updateChatAvailability_NoHide(within, noAgents, api) ==
  /\ rendered' = TRUE
  /\ IF isAvailable(within, noAgents)
       THEN /\ offlineButtonVisible' = offlineButtonVisible
            /\ chatButtonVisible' = showChatButton(api, chatButtonVisible)
       ELSE /\ chatButtonVisible' = chatButtonVisible
            /\ offlineButtonVisible' = showOfflineButton

\* updateChatAvailability whose chat-button calls are not guarded by the
\* utilAPI test: without utilAPI the call throws and ends the function there.
updateChatAvailability_Unguarded(within, noAgents, api) ==
  /\ rendered' = TRUE
  /\ IF isAvailable(within, noAgents)
       THEN /\ offlineButtonVisible' = hideOfflineButton
            /\ chatButtonVisible' = showChatButton(api, chatButtonVisible)
       ELSE IF api
              THEN /\ chatButtonVisible' = hideChatButton(api, chatButtonVisible)
                   /\ offlineButtonVisible' = showOfflineButton
              ELSE UNCHANGED ui

\* updateChatAvailability(reason), run on the flags `within` and `noAgents`
\* with utilAPI present or not.
updateChatAvailability(within, noAgents, api) ==
  /\ rendered' = TRUE
  /\ IF isAvailable(within, noAgents)
       THEN /\ offlineButtonVisible' = hideOfflineButton
            /\ chatButtonVisible' = showChatButton(api, chatButtonVisible)
       ELSE /\ chatButtonVisible' = hideChatButton(api, chatButtonVisible)
            /\ offlineButtonVisible' = showOfflineButton

noRender == rendered' = FALSE /\ UNCHANGED ui

\* ------------------------------------------------------------- resolver
\* A validation that only rejects undefined and null (value != null).
Accepts_NotNullish(value) == value \notin {"undefined", "null"}

\* setBusinessHours(value, source): its return value ...
Accepts(value) == typeof(value) = "boolean"

\* setBusinessHours that keeps the first accepted value.
setBusinessHours_Latched(value, source) ==
  IF ~Accepts(value) \/ businessHoursValue # "null"
    THEN UNCHANGED resolver /\ noRender
    ELSE /\ businessHoursValue' = value
         /\ businessHoursSource' = source
         /\ isWithinBusinessHours' = value
         /\ updateChatAvailability(value, noAgentsAvailable, utilAPI)

\* setBusinessHours that records the source of the first accepted value only.
setBusinessHours_FirstSource(value, source) ==
  IF ~Accepts(value)
    THEN UNCHANGED resolver /\ noRender
    ELSE /\ businessHoursValue' = value
         /\ businessHoursSource' = IF businessHoursValue = "null" THEN source
                                                                  ELSE businessHoursSource
         /\ isWithinBusinessHours' = value
         /\ updateChatAvailability(value, noAgentsAvailable, utilAPI)

\* ... and its effect.
setBusinessHours(value, source) ==
  IF ~Accepts(value)
    THEN UNCHANGED resolver /\ noRender
    ELSE /\ businessHoursValue' = value
         /\ businessHoursSource' = source
         /\ isWithinBusinessHours' = value
         /\ updateChatAvailability(value, noAgentsAvailable, utilAPI)

\* ------------------------------------------------- availability events
WithinBusinessHours(detail) ==
  /\ setBusinessHours(withinBusinessHours(detail), "event")
  /\ last' = [ev |-> "within", arg |-> typeof(withinBusinessHours(detail))]
  /\ UNCHANGED <<noAgentsAvailable, utilAPI, now, chains, apiCalls, monitor>>

\* A Started handler that also resets noAgentsAvailable for the new period.
BusinessHoursStarted_Resets ==
  /\ setBusinessHours("true", "hours_started_event")
  /\ noAgentsAvailable' = FALSE
  /\ last' = [ev |-> "started", arg |-> "none"]
  /\ UNCHANGED <<utilAPI, now, chains, apiCalls, monitor>>

BusinessHoursStarted ==
  /\ setBusinessHours("true", "hours_started_event")
  /\ last' = [ev |-> "started", arg |-> "none"]
  /\ UNCHANGED <<noAgentsAvailable, utilAPI, now, chains, apiCalls, monitor>>

\* The Ended handler pasted from the Started handler with its value kept.
BusinessHoursEnded_True ==
  /\ setBusinessHours("true", "hours_ended_event")
  /\ last' = [ev |-> "ended", arg |-> "none"]
  /\ UNCHANGED <<noAgentsAvailable, utilAPI, now, chains, apiCalls, monitor>>

BusinessHoursEnded ==
  /\ setBusinessHours("false", "hours_ended_event")
  /\ last' = [ev |-> "ended", arg |-> "none"]
  /\ UNCHANGED <<noAgentsAvailable, utilAPI, now, chains, apiCalls, monitor>>

\* ------------------------------------------------------ probe scheduler
\* A chain is one closure of the onEmbeddedMessagingReady handler: its
\* attemptCount, the time its pending setTimeout fires (NoTimer when none),
\* the time the handler ran (start), the time of its latest call of
\* utilAPI.isWithinBusinessHours() (probedAt) and how it ended (outcome).
NewChain ==
  [start |-> now, attemptCount |-> 0, due |-> now + delays[1],
   probedAt |-> NoTimer, outcome |-> "running"]

\* The Ready handler without its "already determined" guard.
Ready_NoGuard ==
  /\ Len(chains) < MaxChains /\ now <= MaxStart * Granule
  /\ noAgentsAvailable' = FALSE
  /\ chains' = Append(chains, NewChain)
  /\ hiddenFields' = getHiddenFieldsForMode(isAuthenticatedMode, prechatData)
  /\ noRender
  /\ last' = [ev |-> "ready", arg |-> "none"]
  /\ UNCHANGED <<resolver, utilAPI, now, apiCalls, chatLaunched, sessionWait, hadAgent,
                 signal, offlineFormOpen, detection, prechatData, isAuthenticatedMode,
                 prechatEditor, launchPending,
                 submission, header>>

\* onEmbeddedMessagingReady: resets the agent flag, and starts polling unless
\* an event already provided the value.
Ready ==
  /\ businessHoursValue = "null" => Len(chains) < MaxChains /\ now <= MaxStart * Granule
  /\ noAgentsAvailable' = FALSE
  /\ chains' = IF businessHoursValue # "null" THEN chains ELSE Append(chains, NewChain)
  /\ hiddenFields' = getHiddenFieldsForMode(isAuthenticatedMode, prechatData)
  /\ noRender
  /\ last' = [ev |-> "ready", arg |-> "none"]
  /\ UNCHANGED <<resolver, utilAPI, now, apiCalls, chatLaunched, sessionWait, hadAgent,
                 signal, offlineFormOpen, detection, prechatData, isAuthenticatedMode,
                 prechatEditor, launchPending,
                 submission, header>>

\* embeddedservice_bootstrap.utilAPI?.isWithinBusinessHours?.(): without
\* utilAPI the optional chain yields undefined.
ProbeResults == IF utilAPI THEN ApiResults ELSE {"undefined"}

\* tryApiCheck without the check that exits once the value is known.
tryApiCheck_NoEarlyExit(i, result) ==
  LET c == chains[i]
      n == c.attemptCount + 1
      probed == [c EXCEPT !.attemptCount = n, !.probedAt = now, !.due = NoTimer]
  IN
  IF FALSE
    THEN /\ chains' = [chains EXCEPT ![i] = [c EXCEPT !.due = NoTimer, !.outcome = "exit"]]
         /\ last' = [ev |-> "timer", arg |-> "exit"]
         /\ noRender
         /\ UNCHANGED <<resolver, apiCalls>>
    ELSE /\ apiCalls' = apiCalls + 1
         /\ last' = [ev |-> "timer", arg |-> result]
         /\ IF result # "throw" /\ Accepts(result)
              THEN /\ setBusinessHours(result, "api")
                   /\ chains' = [chains EXCEPT ![i] = [probed EXCEPT !.outcome = "api"]]
              ELSE IF n < maxAttempts
                THEN /\ chains' = [chains EXCEPT ![i] = [probed EXCEPT !.due = now + delays[n + 1]]]
                     /\ noRender
                     /\ UNCHANGED resolver
                ELSE /\ setBusinessHours(fallbackValue, "default_fallback")
                     /\ chains' = [chains EXCEPT ![i] = [probed EXCEPT !.outcome = "fallback"]]

\* tryApiCheck that never counts its attempts.
tryApiCheck_NoIncrement(i, result) ==
  LET c == chains[i]
      n == c.attemptCount + 1
      probed == [c EXCEPT !.attemptCount = c.attemptCount, !.probedAt = now, !.due = NoTimer]
  IN
  IF businessHoursValue # "null"
    THEN /\ chains' = [chains EXCEPT ![i] = [c EXCEPT !.due = NoTimer, !.outcome = "exit"]]
         /\ last' = [ev |-> "timer", arg |-> "exit"]
         /\ noRender
         /\ UNCHANGED <<resolver, apiCalls>>
    ELSE /\ apiCalls' = apiCalls + 1
         /\ last' = [ev |-> "timer", arg |-> result]
         /\ IF result # "throw" /\ Accepts(result)
              THEN /\ setBusinessHours(result, "api")
                   /\ chains' = [chains EXCEPT ![i] = [probed EXCEPT !.outcome = "api"]]
              ELSE IF n < maxAttempts
                THEN /\ chains' = [chains EXCEPT ![i] = [probed EXCEPT !.due = now + delays[n + 1]]]
                     /\ noRender
                     /\ UNCHANGED resolver
                ELSE /\ setBusinessHours(fallbackValue, "default_fallback")
                     /\ chains' = [chains EXCEPT ![i] = [probed EXCEPT !.outcome = "fallback"]]

\* tryApiCheck that goes on scheduling after a successful call.
tryApiCheck_NoStop(i, result) ==
  LET c == chains[i]
      n == c.attemptCount + 1
      probed == [c EXCEPT !.attemptCount = n, !.probedAt = now, !.due = NoTimer]
  IN
  IF businessHoursValue # "null"
    THEN /\ chains' = [chains EXCEPT ![i] = [c EXCEPT !.due = NoTimer, !.outcome = "exit"]]
         /\ last' = [ev |-> "timer", arg |-> "exit"]
         /\ noRender
         /\ UNCHANGED <<resolver, apiCalls>>
    ELSE /\ apiCalls' = apiCalls + 1
         /\ last' = [ev |-> "timer", arg |-> result]
         /\ IF result # "throw" /\ Accepts(result)
              THEN /\ setBusinessHours(result, "api")
                   /\ chains' = [chains EXCEPT ![i] =
                        [probed EXCEPT !.outcome = "api",
                                       !.due = IF n < maxAttempts THEN now + delays[n + 1] ELSE NoTimer]]
              ELSE IF n < maxAttempts
                THEN /\ chains' = [chains EXCEPT ![i] = [probed EXCEPT !.due = now + delays[n + 1]]]
                     /\ noRender
                     /\ UNCHANGED resolver
                ELSE /\ setBusinessHours(fallbackValue, "default_fallback")
                     /\ chains' = [chains EXCEPT ![i] = [probed EXCEPT !.outcome = "fallback"]]

\* tryApiCheck without its try/catch: an exception thrown by the API call leaves
\* the timer callback, so nothing after the call runs.
tryApiCheck_Uncaught(i, result) ==
  LET c == chains[i]
      n == c.attemptCount + 1
      probed == [c EXCEPT !.attemptCount = n, !.probedAt = now, !.due = NoTimer]
  IN
  IF businessHoursValue # "null"
    THEN /\ chains' = [chains EXCEPT ![i] = [c EXCEPT !.due = NoTimer, !.outcome = "exit"]]
         /\ last' = [ev |-> "timer", arg |-> "exit"]
         /\ noRender
         /\ UNCHANGED <<resolver, apiCalls>>
    ELSE /\ apiCalls' = apiCalls + 1
         /\ last' = [ev |-> "timer", arg |-> result]
         /\ IF result = "throw"
              THEN /\ chains' = [chains EXCEPT ![i] = probed]
                   /\ noRender
                   /\ UNCHANGED resolver
              ELSE IF Accepts(result)
              THEN /\ setBusinessHours(result, "api")
                   /\ chains' = [chains EXCEPT ![i] = [probed EXCEPT !.outcome = "api"]]
              ELSE IF n < maxAttempts
                THEN /\ chains' = [chains EXCEPT ![i] = [probed EXCEPT !.due = now + delays[n + 1]]]
                     /\ noRender
                     /\ UNCHANGED resolver
                ELSE /\ setBusinessHours(fallbackValue, "default_fallback")
                     /\ chains' = [chains EXCEPT ![i] = [probed EXCEPT !.outcome = "fallback"]]

\* tryApiCheck of chain i, whose call of the API (if made) does `result`.
tryApiCheck(i, result) ==
  LET c == chains[i]
      n == c.attemptCount + 1
      probed == [c EXCEPT !.attemptCount = n, !.probedAt = now, !.due = NoTimer]
  IN
  IF businessHoursValue # "null"
    THEN /\ chains' = [chains EXCEPT ![i] = [c EXCEPT !.due = NoTimer, !.outcome = "exit"]]
         /\ last' = [ev |-> "timer", arg |-> "exit"]
         /\ noRender
         /\ UNCHANGED <<resolver, apiCalls>>
    ELSE /\ apiCalls' = apiCalls + 1
         /\ last' = [ev |-> "timer", arg |-> result]
         /\ IF result # "throw" /\ Accepts(result)
              THEN /\ setBusinessHours(result, "api")
                   /\ chains' = [chains EXCEPT ![i] = [probed EXCEPT !.outcome = "api"]]
              ELSE IF n < maxAttempts
                THEN /\ chains' = [chains EXCEPT ![i] = [probed EXCEPT !.due = now + delays[n + 1]]]
                     /\ noRender
                     /\ UNCHANGED resolver
                ELSE /\ setBusinessHours(fallbackValue, "default_fallback")
                     /\ chains' = [chains EXCEPT ![i] = [probed EXCEPT !.outcome = "fallback"]]

\* A pending timer of some chain fires.
TimerFires ==
  \E i \in DOMAIN chains :
    /\ chains[i].due = now
    /\ \E result \in ProbeResults : tryApiCheck(i, result)
    /\ UNCHANGED <<noAgentsAvailable, utilAPI, now, monitor>>

\* Time passes; a timer that is due fires before the clock moves on. Only
\* timers read the clock, so it is left standing once chains can neither
\* start nor fire any more.
Tick ==
  /\ now < MaxStart * Granule \/ \E i \in DOMAIN chains : chains[i].due # NoTimer
  /\ \A i \in DOMAIN chains : chains[i].due # now
  /\ now' = now + Granule
  /\ UNCHANGED <<resolver, noAgentsAvailable, utilAPI, ui, chains, apiCalls, rendered, last,
               monitor>>

\* -------------------------------------------------------- button-ready
\* onEmbeddedMessagingButtonCreated: the button exists, utilAPI works, and
\* the handler updates the visibility.
\* A ButtonCreated handler that renders only once businessHoursValue is set.
ButtonCreated_Pending ==
  /\ utilAPI' = TRUE
  /\ IF businessHoursValue = "null"
       THEN noRender
       ELSE updateChatAvailability(isWithinBusinessHours, noAgentsAvailable, TRUE)
  /\ last' = [ev |-> "button", arg |-> "none"]
  /\ UNCHANGED <<resolver, noAgentsAvailable, now, chains, apiCalls, monitor>>

\* The ButtonCreated handler as it was before it called updateChatAvailability.
ButtonCreated_NoRender ==
  /\ utilAPI' = TRUE
  /\ noRender
  /\ last' = [ev |-> "button", arg |-> "none"]
  /\ UNCHANGED <<resolver, noAgentsAvailable, now, chains, apiCalls, monitor>>

ButtonCreated ==
  /\ utilAPI' = TRUE
  /\ updateChatAvailability(isWithinBusinessHours, noAgentsAvailable, TRUE)
  /\ last' = [ev |-> "button", arg |-> "none"]
  /\ UNCHANGED <<resolver, noAgentsAvailable, now, chains, apiCalls, monitor>>

\* ----------------------------------------------- reactive failure monitor
\* onEmbeddedMessagingSessionStatusUpdate carries event.detail.status,
\* .reason, .routingResult and .agentInfo, each possibly absent.
SessionStatuses == {"Waiting", "Active", "Ended", "undefined"}

Reasons == {"NoAgentsAvailable", "undefined"}

\* routingResult: absent, reporting success, or an object with
\* success === false, or one with agentsAvailable === false.
RoutingResults == {"undefined", "success", "success_false", "agentsAvailable_false"}

\* Pattern 1 comparing the reason with a misspelt name.
Pattern1_Misspelt(status, reason) == status = "Ended" /\ reason = "NoAgentAvailable"

\* Pattern 1: explicit reason field.
Pattern1(status, reason) == status = "Ended" /\ reason = "NoAgentsAvailable"

\* Pattern 2 that looks at routingResult.success only.
Pattern2_SuccessOnly(status, routingResult) ==
  status = "Ended" /\ routingResult = "success_false"

\* Pattern 2: routing result check.
Pattern2(status, routingResult) ==
  status = "Ended" /\ routingResult \in {"success_false", "agentsAvailable_false"}

\* Pattern 3: waiting timeout. `waitedLong` is
\* Date.now() - sessionWaitingStartTime > 60000.
Pattern3(status, waitedLong) == status = "Waiting" /\ waitedLong

\* Pattern 4 without its test of the status.
Pattern4_AnyStatus(status, agentInfo) == ~agentInfo

\* Pattern 4: ended without agent.
Pattern4(status, agentInfo) == status = "Ended" /\ ~agentInfo

DetectsNoAgents(status, reason, routingResult, agentInfo, waitedLong) ==
  \/ Pattern1(status, reason)
  \/ Pattern2(status, routingResult)
  \/ Pattern3(status, waitedLong)
  \/ Pattern4(status, agentInfo)

\* The handler without the reset on Active.
SessionStatusUpdate_NoReset(status, reason, routingResult, agentInfo, waitedLong) ==
  LET detected == DetectsNoAgents(status, reason, routingResult, agentInfo, waitedLong)
      flag == IF detected THEN TRUE ELSE noAgentsAvailable
  IN
  /\ noAgentsAvailable' = flag
  /\ IF detected \/ status = "Active"
       THEN updateChatAvailability(isWithinBusinessHours, flag, utilAPI)
       ELSE noRender
  /\ last' = [ev |-> "session", arg |-> "none"]
  /\ UNCHANGED <<resolver, utilAPI, now, chains, apiCalls>>

\* The body of the onEmbeddedMessagingSessionStatusUpdate handler on the
\* fields of event.detail: detection, reset on Active, re-render.
SessionStatusUpdate(status, reason, routingResult, agentInfo, waitedLong) ==
  LET detected == DetectsNoAgents(status, reason, routingResult, agentInfo, waitedLong)
      flag == IF detected THEN TRUE
              ELSE IF status = "Active" THEN FALSE
              ELSE noAgentsAvailable
  IN
  /\ noAgentsAvailable' = flag
  /\ IF detected \/ status = "Active"
       THEN updateChatAvailability(isWithinBusinessHours, flag, utilAPI)
       ELSE noRender
  /\ last' = [ev |-> "session", arg |-> "none"]
  /\ UNCHANGED <<resolver, utilAPI, now, chains, apiCalls>>

\* The payloads delivered with each status: a reason and a routingResult come
\* with Ended, a waiting time with Waiting.
ReasonsOf(status) == IF status = "Ended" THEN Reasons ELSE {"undefined"}

RoutingResultsOf(status) == IF status = "Ended" THEN RoutingResults ELSE {"undefined"}

WaitsOf(status) == IF status = "Waiting" THEN BOOLEAN ELSE {FALSE}

\* ------------------------------------------------------ launch and session
\* The visitor clicks the chat button: the handler sets the hidden prechat
\* fields for the mode and calls utilAPI.launchChat(); the click and the 100 ms
\* timer of the call are one step here, with no other handler between them.
LaunchChat ==
  /\ chatButtonVisible
  /\ hiddenFields' = getHiddenFieldsForMode(isAuthenticatedMode, prechatData)
  /\ chatLaunched' = TRUE
  /\ noRender
  /\ last' = [ev |-> "launch", arg |-> "none"]
  /\ UNCHANGED <<resolver, noAgentsAvailable, utilAPI, now, chains, apiCalls,
                 sessionWait, hadAgent, signal, offlineFormOpen, detection,
                 prechatData, isAuthenticatedMode, prechatEditor, launchPending,
                 submission, header>>

\* An event.detail with none of the expected fields.
NoFields ==
  [status |-> "undefined", reason |-> "undefined",
   routingResult |-> "undefined", agentInfo |-> FALSE]

\* The payloads of a session status update: a reason and a routingResult
\* come with Ended, or with a detail that lacks its status.
SessionDetails ==
  {fields \in [status : SessionStatuses, reason : Reasons,
               routingResult : RoutingResults, agentInfo : BOOLEAN] :
     fields.status \in {"Waiting", "Active"} =>
       fields.reason = "undefined" /\ fields.routingResult = "undefined"}

\* const { status, reason, routingResult } = event.detail || {}
destructure(hasDetail, fields) == IF hasDetail THEN fields ELSE NoFields

\* sessionWaitingStartTime is set when the session starts waiting and cleared
\* when it leaves the Waiting status.
trackWaiting(status) ==
  IF status = "Waiting"
    THEN IF sessionWait = "unset" THEN "fresh" ELSE sessionWait
    ELSE IF status \in {"Active", "Ended"} THEN "unset" ELSE sessionWait

\* More than 60 s pass since sessionWaitingStartTime; no handler runs.
WaitExpires ==
  /\ sessionWait = "fresh"
  /\ sessionWait' = "expired"
  /\ noRender
  /\ last' = [ev |-> "elapsed", arg |-> "none"]
  /\ UNCHANGED <<resolver, noAgentsAvailable, utilAPI, now, chains, apiCalls,
                 chatLaunched, hadAgent, signal, visitor>>

\* The onEmbeddedMessagingSessionStatusUpdate listener, registered at page
\* load, on an event with or without detail.
onEmbeddedMessagingSessionStatusUpdate(hasDetail, fields) ==
  LET d == destructure(hasDetail, fields) IN
  /\ SessionStatusUpdate(d.status, d.reason, d.routingResult, d.agentInfo,
                         sessionWait = "expired")
  /\ sessionWait' = trackWaiting(d.status)
  /\ hadAgent' = IF d.status = "Active" /\ d.agentInfo THEN TRUE
                 ELSE IF signal.status = "Ended" THEN FALSE
                 ELSE hadAgent
  /\ signal' = [detail |-> hasDetail, status |-> d.status, reason |-> d.reason,
                routingResult |-> d.routingResult, agentInfo |-> d.agentInfo,
                launched |-> chatLaunched, demoted |-> noAgentsAvailable,
                again |-> /\ last.ev = "session" /\ signal.detail = hasDetail
                          /\ signal.status = d.status /\ signal.reason = d.reason
                          /\ signal.routingResult = d.routingResult
                          /\ signal.agentInfo = d.agentInfo]
  /\ UNCHANGED <<chatLaunched, visitor>>

\* ------------------------------------------------------- offline form
\* openOfflineForm(), the onclick of the Leave a Message button: hides the
\* button and expands the form.
openOfflineForm ==
  /\ offlineButtonVisible
  /\ offlineButtonVisible' = hideOfflineButton
  /\ offlineFormOpen' = TRUE
  /\ rendered' = FALSE
  /\ last' = [ev |-> "open", arg |-> "none"]
  /\ UNCHANGED <<resolver, noAgentsAvailable, utilAPI, chatButtonVisible, now, chains,
                 apiCalls, chatLaunched, sessionWait, hadAgent, signal, detection, prechat,
                 submission, header>>

\* hideOfflineForm as it was before its enhancement took the availability
\* into account: the button comes back on every close.
hideOfflineForm_Always ==
  /\ offlineFormOpen
  /\ offlineFormOpen' = FALSE
  /\ submission' = [submission EXCEPT !.success = FALSE, !.filled = FALSE]
  /\ offlineButtonVisible' = showOfflineButton
  /\ rendered' = FALSE
  /\ last' = [ev |-> "close", arg |-> "none"]
  /\ UNCHANGED <<resolver, noAgentsAvailable, utilAPI, chatButtonVisible, now, chains,
                 apiCalls, chatLaunched, sessionWait, hadAgent, signal, detection, prechat,
                 header>>

\* hideOfflineForm(), the onclick of the Close buttons of the form and of its
\* success message: closes the form, hides the success message, clears the
\* fields and shows the button again if chat is still unavailable.
hideOfflineForm ==
  /\ offlineFormOpen
  /\ offlineFormOpen' = FALSE
  /\ submission' = [submission EXCEPT !.success = FALSE, !.filled = FALSE]
  /\ offlineButtonVisible' =
       IF isWithinBusinessHours # "true" \/ noAgentsAvailable
         THEN showOfflineButton ELSE offlineButtonVisible
  /\ rendered' = FALSE
  /\ last' = [ev |-> "close", arg |-> "none"]
  /\ UNCHANGED <<resolver, noAgentsAvailable, utilAPI, chatButtonVisible, now, chains,
                 apiCalls, chatLaunched, sessionWait, hadAgent, signal, detection, prechat,
                 header>>

\* What the submission of the offline form leaves alone.
formPage == <<resolver, noAgentsAvailable, utilAPI, ui, now, chains, apiCalls,
              chatLaunched, sessionWait, hadAgent, signal, offlineFormOpen, detection,
              prechat, header>>

\* The visitor types into the fields of the form, or empties them.
inputOfflineFields(filled) ==
  /\ offlineFormOpen /\ ~submission.success
  /\ submission' = [submission EXCEPT !.filled = filled]
  /\ rendered' = FALSE
  /\ last' = [ev |-> "type", arg |-> "none"]
  /\ UNCHANGED formPage

\* submitOfflineForm(event) up to its await: the browser has validated the
\* required fields; the button shows "Sending..." and is disabled, and the
\* fetch to the Web-to-Case endpoint is sent.
submitOfflineForm ==
  /\ offlineFormOpen /\ ~submission.success
  /\ ~submission.disabled /\ submission.filled
  /\ submission' = [submission EXCEPT !.disabled = TRUE, !.label = "Sending...",
                                      !.fetch = TRUE]
  /\ rendered' = FALSE
  /\ last' = [ev |-> "submit", arg |-> "none"]
  /\ UNCHANGED formPage

\* How the fetch (mode: 'no-cors') can end: Salesforce created the case,
\* Salesforce refused the request (the response is opaque either way), or the
\* request could not be made and the promise rejects.
FetchOutcomes == {"created", "refused", "network_error"}

\* The fetch throws for a network error only.
rejects(outcome) == outcome = "network_error"

\* submitOfflineForm whose catch block only reports the error.
submitOfflineForm_NoReset(outcome) ==
  /\ submission.fetch
  /\ submission' =
       IF rejects(outcome)
         THEN [submission EXCEPT !.fetch = FALSE]
         ELSE [submission EXCEPT !.fetch = FALSE, !.success = TRUE,
                                 !.resetTimer = TRUE, !.hideTimer = TRUE]
  /\ rendered' = FALSE
  /\ last' = [ev |-> "fetch", arg |-> outcome]
  /\ UNCHANGED formPage

\* submitOfflineForm(event) after its await: the success message replaces the
\* form content and the timers of 3 s and 5 s are started (one pending timer
\* of each is kept), or the catch block alerts and resets the button.
submitOfflineForm_Settled(outcome) ==
  /\ submission.fetch
  /\ submission' =
       IF rejects(outcome)
         THEN [submission EXCEPT !.fetch = FALSE, !.disabled = FALSE, !.label = "Submit"]
         ELSE [submission EXCEPT !.fetch = FALSE, !.success = TRUE,
                                 !.resetTimer = TRUE, !.hideTimer = TRUE]
  /\ rendered' = FALSE
  /\ last' = [ev |-> "fetch", arg |-> outcome]
  /\ UNCHANGED formPage

\* 3 s after the success: the fields are reset and the button is enabled.
resetTimerFires ==
  /\ submission.resetTimer
  /\ submission' = [submission EXCEPT !.resetTimer = FALSE, !.filled = FALSE,
                                      !.disabled = FALSE, !.label = "Submit"]
  /\ rendered' = FALSE
  /\ last' = [ev |-> "reset", arg |-> "none"]
  /\ UNCHANGED formPage

\* 5 s after the success: the success message is hidden and the form content
\* is shown again.
hideTimerFires ==
  /\ submission.hideTimer /\ ~submission.resetTimer
  /\ submission' = [submission EXCEPT !.hideTimer = FALSE, !.success = FALSE]
  /\ rendered' = FALSE
  /\ last' = [ev |-> "hide", arg |-> "none"]
  /\ UNCHANGED formPage

\* --------------------------------- the guide's combined detection pattern
\* What only the detection pattern leaves alone.
page == <<resolver, noAgentsAvailable, utilAPI, ui, now, chains, apiCalls,
          chatLaunched, sessionWait, hadAgent, signal, offlineFormOpen, prechat,
          submission, header>>

\* enableOfflineDetection(), called once launchChat() has resolved: registers
\* the routing listener and a 30 s timeout (one pending timeout is kept).
enableOfflineDetection ==
  /\ chatLaunched
  /\ detection' = [detection EXCEPT !.detectionActive = TRUE, !.fallbackTriggered = FALSE,
                                    !.listening = TRUE, !.timeout = TRUE]
  /\ rendered' = FALSE
  /\ last' = [ev |-> "enable", arg |-> "none"]
  /\ UNCHANGED page

\* The payloads of onEmbeddedMessagingConversationRouted, by the field that
\* isRoutingFailure(payload) finds in them.
RoutedPayloads ==
  {"empty", "success_true", "success_false", "status_Failed", "isSuccessful_false",
   "routingOutcome_UNSUCCESSFUL", "error_NO_AGENT_AVAILABLE", "error_message_no_agent"}

isRoutingFailure(payload) == payload \notin {"empty", "success_true"}

\* triggerFallback without its fallbackTriggered test.
triggerFallback_NoLatch(d) ==
  [d EXCEPT !.fallbackTriggered = TRUE, !.detectionActive = FALSE, !.fallbackShown = TRUE]

\* triggerFallback(): once per latch, stops the detection and shows the
\* web-to-case form in place of the chat elements.
triggerFallback(d) ==
  IF d.fallbackTriggered THEN d
  ELSE [d EXCEPT !.fallbackTriggered = TRUE, !.detectionActive = FALSE, !.fallbackShown = TRUE]

handleRoutingEvent(payload) ==
  /\ detection.listening
  /\ detection' = IF isRoutingFailure(payload)
                    THEN triggerFallback(detection)
                    ELSE [detection EXCEPT !.conversationStarted = TRUE,
                                           !.detectionActive = FALSE]
  /\ rendered' = FALSE
  /\ last' = [ev |-> "routed", arg |-> IF isRoutingFailure(payload) THEN "failure" ELSE "none"]
  /\ UNCHANGED page

\* The 30 s timeout of enableOfflineDetection fires.
detectionTimeout ==
  /\ detection.timeout
  /\ detection' =
       LET d == [detection EXCEPT !.timeout = FALSE] IN
       IF d.detectionActive /\ ~d.conversationStarted THEN triggerFallback(d) ELSE d
  /\ rendered' = FALSE
  /\ last' = [ev |-> "timeout", arg |-> "none"]
  /\ UNCHANGED page

\* A conversation-started handler that also resets noAgentsAvailable and
\* renders.
onEmbeddedMessagingConversationStarted_Resets ==
  /\ detection' = [detection EXCEPT !.conversationStarted = TRUE,
                                    !.detectionActive = FALSE, !.fallbackTriggered = FALSE]
  /\ noAgentsAvailable' = FALSE
  /\ updateChatAvailability(isWithinBusinessHours, FALSE, utilAPI)
  /\ last' = [ev |-> "conversation", arg |-> "none"]
  /\ UNCHANGED <<resolver, utilAPI, now, chains, apiCalls,
                 chatLaunched, sessionWait, hadAgent, signal, offlineFormOpen, prechat,
                 submission, header>>

\* The onEmbeddedMessagingConversationStarted listeners: the page's logs the
\* event, the guide's marks the conversation as started, stops the detection
\* and releases the fallbackTriggered latch.
onEmbeddedMessagingConversationStarted ==
  /\ detection' = [detection EXCEPT !.conversationStarted = TRUE,
                                    !.detectionActive = FALSE, !.fallbackTriggered = FALSE]
  /\ noRender
  /\ last' = [ev |-> "conversation", arg |-> "none"]
  /\ UNCHANGED <<resolver, noAgentsAvailable, utilAPI, now, chains, apiCalls,
                 chatLaunched, sessionWait, hadAgent, signal, offlineFormOpen, prechat,
                 submission, header>>

\* ---------------------------------------------------------- prechat data
\* What the handlers of the authentication toggle and of the prechat editor
\* leave alone.
availability == <<resolver, noAgentsAvailable, utilAPI, ui, now, chains, apiCalls,
                  chatLaunched, sessionWait, hadAgent, signal, offlineFormOpen, detection,
                  submission, header>>

\* Both handlers update the hidden fields at once if prechatAPI exists, which
\* it does once a handler of the widget's events has set them.
prechatAPI == hiddenFields # NotSent

\* toggleAuthMode(), the onchange of the authentication checkbox.
toggleAuthMode ==
  /\ isAuthenticatedMode' = ~isAuthenticatedMode
  /\ hiddenFields' = IF prechatAPI
                       THEN getHiddenFieldsForMode(~isAuthenticatedMode, prechatData)
                       ELSE hiddenFields
  /\ rendered' = FALSE
  /\ last' = [ev |-> "toggle", arg |-> "none"]
  /\ UNCHANGED <<availability, prechatData, prechatEditor, launchPending>>

\* savePrechatInfo(), the prechat editor storing the visitor's data.
savePrechatInfo(data) ==
  /\ prechatData' = data
  /\ hiddenFields' = IF prechatAPI
                       THEN getHiddenFieldsForMode(isAuthenticatedMode, data)
                       ELSE hiddenFields
  /\ rendered' = FALSE
  /\ prechatEditor' = Closed
  /\ last' = [ev |-> "save", arg |-> "none"]
  /\ UNCHANGED <<availability, isAuthenticatedMode, launchPending>>

\* What the prechat form's <input type="email" required> accepts on submit.
checkValidity(fields) == fields.email # InvalidEmail

\* openPrechatEditor(): shows the modal with the current values in its form.
openPrechatEditor ==
  /\ prechatEditor = Closed
  /\ prechatEditor' = <<prechatData>>
  /\ rendered' = FALSE
  /\ last' = [ev |-> "edit", arg |-> "none"]
  /\ UNCHANGED <<availability, prechatData, isAuthenticatedMode, hiddenFields, launchPending>>

\* The visitor changes the fields of the form (email, first name, last name,
\* subject) to `fields`.
inputPrechatFields(fields) ==
  /\ prechatEditor # Closed
  /\ fields.chat_source__c = prechatEditor[1].chat_source__c
  /\ prechatEditor' = <<fields>>
  /\ rendered' = FALSE
  /\ last' = [ev |-> "input", arg |-> "none"]
  /\ UNCHANGED <<availability, prechatData, isAuthenticatedMode, hiddenFields, launchPending>>

\* closePrechatEditor(), the Cancel and x buttons and a click outside the
\* modal: hides the modal and does not save.
closePrechatEditor ==
  /\ prechatEditor # Closed
  /\ prechatEditor' = Closed
  /\ rendered' = FALSE
  /\ last' = [ev |-> "cancel", arg |-> "none"]
  /\ UNCHANGED <<availability, prechatData, isAuthenticatedMode, hiddenFields, launchPending>>

\* The Save Changes button: the browser validates the form, and
\* savePrechatInfo() stores its values.
submitPrechatForm ==
  /\ prechatEditor # Closed
  /\ checkValidity(prechatEditor[1])
  /\ savePrechatInfo(prechatEditor[1])

\* The click handler of the chat button with a hard-coded field.
customBtnClick_Hardcoded ==
  /\ chatButtonVisible
  /\ hiddenFields' = ("email_custom" :> "dogz@mailinator.com")
  /\ launchPending' = TRUE
  /\ noRender
  /\ last' = [ev |-> "click", arg |-> "none"]
  /\ UNCHANGED <<resolver, noAgentsAvailable, utilAPI, now, chains, apiCalls,
                 chatLaunched, sessionWait, hadAgent, signal, offlineFormOpen, detection,
                 prechatData, isAuthenticatedMode, prechatEditor,
                 submission, header>>

\* The click handler of the chat button: sets the hidden prechat fields for
\* the mode and starts the 100 ms timer of launchChat().
customBtnClick ==
  /\ chatButtonVisible
  /\ hiddenFields' = getHiddenFieldsForMode(isAuthenticatedMode, prechatData)
  /\ launchPending' = TRUE
  /\ noRender
  /\ last' = [ev |-> "click", arg |-> "none"]
  /\ UNCHANGED <<resolver, noAgentsAvailable, utilAPI, now, chains, apiCalls,
                 chatLaunched, sessionWait, hadAgent, signal, offlineFormOpen, detection,
                 prechatData, isAuthenticatedMode, prechatEditor,
                 submission, header>>

\* The timer of the click handler fires: utilAPI.launchChat().
launchChat ==
  /\ launchPending
  /\ launchPending' = FALSE
  /\ chatLaunched' = TRUE
  /\ noRender
  /\ last' = [ev |-> "launch", arg |-> "none"]
  /\ UNCHANGED <<resolver, noAgentsAvailable, utilAPI, now, chains, apiCalls,
                 sessionWait, hadAgent, signal, offlineFormOpen, detection,
                 prechatData, isAuthenticatedMode, hiddenFields, prechatEditor,
                 submission, header>>

\* ------------------------------------------------- CapellaMessagingHeader
\* What the handlers of the header component leave alone.
hostPage == <<resolver, noAgentsAvailable, utilAPI, ui, now, chains, apiCalls,
              chatLaunched, sessionWait, hadAgent, signal, offlineFormOpen, detection,
              prechat, submission>>

\* The ghost argument of a header step: showMenu before the handler ran.
menuWas == IF header.showMenu THEN "open" ELSE "closed"

\* dispatchMessagingEvent({ eventType })
dispatchMessagingEvent(eventType) == Append(header.dispatched, eventType)

\* A menu button that only opens the menu.
handleMenuClick_Opens ==
  /\ header' = [header EXCEPT !.showMenu = TRUE]
  /\ rendered' = FALSE
  /\ last' = [ev |-> "menu", arg |-> menuWas]
  /\ UNCHANGED hostPage

handleMenuClick ==
  /\ header' = [header EXCEPT !.showMenu = ~header.showMenu]
  /\ rendered' = FALSE
  /\ last' = [ev |-> "menu", arg |-> menuWas]
  /\ UNCHANGED hostPage

handleMinimize ==
  /\ Len(header.dispatched) < MaxDispatched
  /\ header' = [showMenu |-> FALSE,
                dispatched |-> dispatchMessagingEvent("MINIMIZE_CONVERSATION")]
  /\ rendered' = FALSE
  /\ last' = [ev |-> "minimize", arg |-> menuWas]
  /\ UNCHANGED hostPage

handleClose ==
  /\ Len(header.dispatched) < MaxDispatched
  /\ header' = [showMenu |-> FALSE,
                dispatched |-> dispatchMessagingEvent("CLOSE_CONVERSATION")]
  /\ rendered' = FALSE
  /\ last' = [ev |-> "closeConversation", arg |-> menuWas]
  /\ UNCHANGED hostPage

\* The End Conversation item is rendered only while showMenu is true.
handleEndConversation ==
  /\ header.showMenu
  /\ Len(header.dispatched) < MaxDispatched
  /\ header' = [showMenu |-> FALSE,
                dispatched |-> dispatchMessagingEvent("END_CONVERSATION")]
  /\ rendered' = FALSE
  /\ last' = [ev |-> "endConversation", arg |-> menuWas]
  /\ UNCHANGED hostPage

\* ------------------------------------------------------- specification
Next ==
  \/ \E detail \in EventDetails : WithinBusinessHours(detail)
  \/ BusinessHoursStarted
  \/ BusinessHoursEnded
  \/ Ready
  \/ TimerFires
  \/ Tick
  \/ ButtonCreated
  \/ \E status \in SessionStatuses, agentInfo \in BOOLEAN :
       \E reason \in ReasonsOf(status), routingResult \in RoutingResultsOf(status),
          waitedLong \in WaitsOf(status) :
         /\ SessionStatusUpdate(status, reason, routingResult, agentInfo, waitedLong)
         /\ UNCHANGED monitor

Spec == Init /\ [][Next]_vars

\* The page with the launch of the chat and the session monitor in full: the
\* waiting clock is state, and the polling timers are left pending.
MonitorNext ==
  \/ \E detail \in EventDetails : WithinBusinessHours(detail)
  \/ BusinessHoursStarted
  \/ BusinessHoursEnded
  \/ Ready
  \/ ButtonCreated
  \/ LaunchChat
  \/ WaitExpires
  \/ \E hasDetail \in BOOLEAN, fields \in SessionDetails :
       /\ hasDetail \/ fields = NoFields
       /\ onEmbeddedMessagingSessionStatusUpdate(hasDetail, fields)

MonitorSpec == Init /\ [][MonitorNext]_vars

\* The page with the visitor's actions: the launch of the chat, the offline
\* form, the conversation events and the guide's detection pattern; the
\* polling timers are left pending and the waiting clock is an input.
VisitorNext ==
  \/ \E detail \in EventDetails : WithinBusinessHours(detail)
  \/ BusinessHoursStarted
  \/ BusinessHoursEnded
  \/ Ready
  \/ ButtonCreated
  \/ LaunchChat
  \/ \E status \in SessionStatuses, agentInfo \in BOOLEAN :
       \E reason \in ReasonsOf(status), routingResult \in RoutingResultsOf(status),
          waitedLong \in WaitsOf(status) :
         /\ SessionStatusUpdate(status, reason, routingResult, agentInfo, waitedLong)
         /\ UNCHANGED monitor
  \/ openOfflineForm
  \/ hideOfflineForm
  \/ enableOfflineDetection
  \/ \E payload \in RoutedPayloads : handleRoutingEvent(payload)
  \/ detectionTimeout
  \/ onEmbeddedMessagingConversationStarted

VisitorSpec == Init /\ [][VisitorNext]_vars

\* The page with the authentication toggle and the prechat editor.
PrechatNext ==
  \/ Ready
  \/ ButtonCreated
  \/ customBtnClick
  \/ launchChat
  \/ toggleAuthMode
  \/ openPrechatEditor
  \/ \E fields \in FormInputs : inputPrechatFields(fields)
  \/ closePrechatEditor
  \/ submitPrechatForm

PrechatSpec == Init /\ [][PrechatNext]_vars

\* The page with the offline form and its submission.
OfflineFormNext ==
  \/ \E detail \in EventDetails : WithinBusinessHours(detail)
  \/ BusinessHoursStarted
  \/ BusinessHoursEnded
  \/ ButtonCreated
  \/ openOfflineForm
  \/ hideOfflineForm
  \/ \E filled \in BOOLEAN : inputOfflineFields(filled)
  \/ submitOfflineForm
  \/ \E outcome \in FetchOutcomes : submitOfflineForm_Settled(outcome)
  \/ resetTimerFires
  \/ hideTimerFires

OfflineFormSpec == Init /\ [][OfflineFormNext]_vars

\* The header component of the chat window.
HeaderNext ==
  \/ handleMenuClick
  \/ handleMinimize
  \/ handleClose
  \/ handleEndConversation

HeaderSpec == Init /\ [][HeaderNext]_vars

\* ------------------------------------------------------------ properties
Resolved == businessHoursValue # "null"

\* Cumulative delays of attempts 1..5 from the start of a chain, in ms.
CumulativeDelays == <<1000, 3000, 6000, 10000, 15000>>

RECURSIVE SumAttempts(_)
SumAttempts(cs) == IF cs = <<>> THEN 0 ELSE Head(cs).attemptCount + SumAttempts(Tail(cs))

\* The handler that ran last was chain i's successful call of the API.
ProbeResolved(i) ==
  last.ev = "timer" /\ last.arg \in Booleans /\ chains[i].outcome = "api"

\* The handler that ran last was chain i's fifth failed call, with the fallback.
FellBack(i) ==
  last.ev = "timer" /\ last.arg \in {"undefined", "throw"} /\ chains[i].outcome = "fallback"

\* A step of the polling timers (the only handler that leaves last.ev = "timer").
TimerStep == last'.ev = "timer" /\ now' = now

\* A step of the primary business-hours event handler.
WithinStep == last'.ev = "within" /\ now' = now

\* C1 as stated: once businessHoursValue is set, exactly one of the chat button
\* and the Leave a Message button is visible.
C1_ExactlyOneOnceResolved ==
  Resolved => (chatButtonVisible # offlineButtonVisible)

\* C1, amended: the two buttons are never visible together, and once
\* businessHoursValue is set and the chat button has been created exactly one
\* of them is visible.
C1_MutualExclusivity ==
  /\ ~(chatButtonVisible /\ offlineButtonVisible)
  /\ Resolved /\ utilAPI => (chatButtonVisible # offlineButtonVisible)

C1_Witness ==
  /\ last.ev = "session" /\ Resolved /\ utilAPI
  /\ businessHoursValue = "true" /\ noAgentsAvailable
  /\ offlineButtonVisible /\ ~chatButtonVisible

\* C2 as stated: once businessHoursValue is set, no primary business-hours
\* event and no polling timer changes businessHoursValue or businessHoursSource.
C2_LatchAsStated ==
  [][Resolved /\ (TimerStep \/ WithinStep)
       => UNCHANGED <<businessHoursValue, businessHoursSource>>]_vars

\* C2, amended: once businessHoursValue is set, a polling timer never changes
\* it, and a primary business-hours event leaves it unchanged exactly when its
\* value is not a boolean; a boolean one overwrites value and source.
C2_Latch ==
  [][Resolved =>
       /\ TimerStep => UNCHANGED <<businessHoursValue, businessHoursSource>>
       /\ WithinStep =>
            \A d \in EventDetails :
              last'.arg = typeof(withinBusinessHours(d)) /\ WithinBusinessHours(d) =>
                IF withinBusinessHours(d) \in Booleans
                  THEN /\ businessHoursValue' = withinBusinessHours(d)
                       /\ businessHoursSource' = "event"
                  ELSE UNCHANGED <<businessHoursValue, businessHoursSource>>]_vars

C2_Witness ==
  /\ last.ev = "within" /\ last.arg = "boolean"
  /\ businessHoursSource = "event" /\ businessHoursValue = "false"
  /\ \E i \in DOMAIN chains : chains[i].outcome = "api"

\* C3: the BusinessHoursStarted handler always leaves businessHoursValue true
\* with source hours_started_event, the BusinessHoursEnded handler false with
\* source hours_ended_event, whatever was set before.
C3_TransitionOverride ==
  /\ last.ev = "started" =>
       /\ businessHoursValue = "true" /\ isWithinBusinessHours = "true"
       /\ businessHoursSource = "hours_started_event"
  /\ last.ev = "ended" =>
       /\ businessHoursValue = "false" /\ isWithinBusinessHours = "false"
       /\ businessHoursSource = "hours_ended_event"

C3_Witness ==
  /\ last.ev = "ended" /\ businessHoursValue = "false"
  /\ \E i \in DOMAIN chains : chains[i].outcome = "fallback"

\* C4: a primary business-hours event whose value is not a boolean changes
\* neither businessHoursValue, businessHoursSource nor isWithinBusinessHours,
\* calls no updateChatAvailability and leaves both buttons as they were.
C4_InvalidSignalRejected ==
  [][WithinStep =>
       \A d \in EventDetails :
         withinBusinessHours(d) \notin Booleans /\ last'.arg = "other"
           /\ WithinBusinessHours(d)
           => UNCHANGED resolver /\ UNCHANGED ui /\ rendered' = FALSE]_vars

C4_Witness ==
  /\ last.ev = "within" /\ last.arg = "other" /\ ~rendered
  /\ ~Resolved /\ chains # <<>>

\* C5 as stated: after the fifth failed attempt businessHoursValue is true from
\* default_fallback, 15 s after the chain started, and the chat button shows.
C5_FailOpenShowsChat ==
  \A i \in DOMAIN chains :
    FellBack(i) =>
      /\ businessHoursValue = "true" /\ businessHoursSource = "default_fallback"
      /\ chains[i].probedAt = chains[i].start + 15000
      /\ chatButtonVisible /\ ~offlineButtonVisible

\* C5, amended: after the fifth failed attempt businessHoursValue is true from
\* default_fallback, 15 s after the chain started and never earlier; the chat
\* button then shows iff it has been created and noAgentsAvailable is false,
\* and the Leave a Message button shows iff noAgentsAvailable is true.
C5_FailOpen ==
  /\ \A i \in DOMAIN chains :
       FellBack(i) =>
         /\ businessHoursValue = "true" /\ businessHoursSource = "default_fallback"
         /\ isWithinBusinessHours = "true"
         /\ chains[i].attemptCount = 5
         /\ chains[i].probedAt = chains[i].start + 15000
         /\ chatButtonVisible = (utilAPI /\ ~noAgentsAvailable)
         /\ offlineButtonVisible = noAgentsAvailable
  /\ businessHoursSource = "default_fallback" =>
       \E i \in DOMAIN chains :
         /\ chains[i].outcome = "fallback"
         /\ chains[i].probedAt = chains[i].start + 15000

C5_Witness ==
  \E i \in DOMAIN chains :
    FellBack(i) /\ chatButtonVisible /\ ~offlineButtonVisible /\ apiCalls = 5

\* C6 as stated: utilAPI.isWithinBusinessHours() is called at most 5 times.
C6_AtMostFiveCalls == apiCalls <= 5

\* C6, amended: every chain calls utilAPI.isWithinBusinessHours() at most 5
\* times, every call belongs to a chain, and every onEmbeddedMessagingReady
\* that finds businessHoursValue null starts a chain of its own, so the total
\* is at most 5 times the number of such events.
C6_BoundedProbing ==
  /\ \A i \in DOMAIN chains : chains[i].attemptCount <= 5
  /\ apiCalls = SumAttempts(chains)
  /\ apiCalls <= 5 * Len(chains)

C6_Witness == Len(chains) = 2 /\ apiCalls = 9

\* C7: in every chain attempt k is made at 1000, 3000, 6000, 10000, 15000 ms
\* after the chain started, the pending timer is the one of the next attempt,
\* and no timer is pending after the fifth.
C7_Schedule ==
  \A i \in DOMAIN chains :
    LET c == chains[i] IN
    /\ c.attemptCount \in 0 .. 5
    /\ c.attemptCount >= 1 => c.probedAt = c.start + CumulativeDelays[c.attemptCount]
    /\ c.attemptCount = 5 => c.due = NoTimer
    /\ c.due # NoTimer => c.due = c.start + CumulativeDelays[c.attemptCount + 1]

C7_Witness ==
  \E i \in DOMAIN chains :
    /\ chains[i].attemptCount = 5 /\ chains[i].start = 1000
    /\ chains[i].probedAt = 16000 /\ now = 16000

\* C8: utilAPI.isWithinBusinessHours() is only called while businessHoursValue
\* is null; a timer firing after the value is set makes no call, schedules
\* nothing, leaves the value alone and falls back to nothing.
C8_NoProbeOnceResolved ==
  [][Resolved =>
       /\ apiCalls' = apiCalls
       /\ TimerStep =>
            /\ UNCHANGED resolver
            /\ \A i \in DOMAIN chains :
                 /\ chains'[i].attemptCount = chains[i].attemptCount
                 /\ chains'[i].due \in {chains[i].due, NoTimer}
                 /\ chains'[i].outcome \in {chains[i].outcome, "exit"}]_vars

C8_Witness ==
  /\ last.ev = "timer" /\ last.arg = "exit"
  /\ businessHoursSource = "hours_started_event"
  /\ \E i \in DOMAIN chains :
       /\ chains[i].outcome = "exit" /\ chains[i].attemptCount = 2
       /\ chains[i].due = NoTimer

\* C9: onEmbeddedMessagingReady arriving with businessHoursValue set starts no
\* chain, calls no API and leaves value, source and both buttons as they were;
\* without a chain no API call is ever made.
C9_NoProbeWhenResolvedAtStart ==
  [][/\ Ready /\ Resolved => UNCHANGED <<chains, apiCalls, resolver, ui>>
     /\ chains' = <<>> => apiCalls' = 0]_vars

C9_Witness ==
  /\ last.ev = "ready" /\ businessHoursSource = "event" /\ businessHoursValue = "true"
  /\ chains = <<>> /\ apiCalls = 0 /\ chatButtonVisible

\* C10 as stated: when attempt k of a chain is the first call returning a
\* boolean, exactly k calls have been made in total.
C10_ExactlyKCallsInTotal ==
  \A i \in DOMAIN chains : ProbeResolved(i) => apiCalls = chains[i].attemptCount

\* C10, amended: when attempt k of a chain is the first call returning a
\* boolean b, businessHoursValue is b from source api, set at the cumulative
\* delay of attempt k, that chain has made exactly k calls (k in total when it
\* is the only chain), it has no timer pending, and no chain falls back.
C10_ProbeSuccess ==
  /\ \A i \in DOMAIN chains :
       ProbeResolved(i) =>
         /\ businessHoursValue = last.arg /\ businessHoursSource = "api"
         /\ chains[i].attemptCount \in 1 .. 5
         /\ chains[i].probedAt = chains[i].start + CumulativeDelays[chains[i].attemptCount]
         /\ Len(chains) = 1 => apiCalls = chains[i].attemptCount
  /\ \A i \in DOMAIN chains :
       chains[i].outcome = "api" =>
         /\ chains[i].due = NoTimer
         /\ \A j \in DOMAIN chains : chains[j].outcome # "fallback"

C10_Witness ==
  \E i \in DOMAIN chains :
    /\ ProbeResolved(i) /\ Len(chains) = 1 /\ apiCalls = 3
    /\ businessHoursValue = "true" /\ chains[i].probedAt = chains[i].start + 6000

\* C11: a call of the API that throws is handled like one that returns
\* undefined: the chain counts one more attempt, businessHoursValue and its
\* source stay as they were and nothing is rendered, and the callback goes on to
\* schedule the next attempt after delays[n + 1], or, on the fifth attempt, to
\* set true from default_fallback with no timer left.
C11_ProbeFailure ==
  [][TimerStep /\ last'.arg \in {"throw", "undefined"} =>
       \E i \in DOMAIN chains :
         LET n == chains[i].attemptCount + 1 IN
         /\ chains[i].due = now
         /\ \A j \in DOMAIN chains : j # i => chains'[j] = chains[j]
         /\ chains'[i].attemptCount = n
         /\ apiCalls' = apiCalls + 1
         /\ IF n < maxAttempts
              THEN /\ UNCHANGED resolver /\ UNCHANGED ui /\ rendered' = FALSE
                   /\ chains'[i].due = now + delays[n + 1]
                   /\ chains'[i].outcome = "running"
              ELSE /\ businessHoursValue' = "true"
                   /\ businessHoursSource' = "default_fallback"
                   /\ chains'[i].due = NoTimer
                   /\ chains'[i].outcome = "fallback"]_vars

C11_Witness ==
  /\ last.ev = "timer" /\ last.arg = "throw" /\ ~Resolved
  /\ \E i \in DOMAIN chains :
       /\ chains[i].attemptCount = 2 /\ chains[i].probedAt = now
       /\ chains[i].due = now + 3000 /\ chains[i].outcome = "running"

\* A step of the onEmbeddedMessagingReady handler, and of the
\* onEmbeddedMessagingButtonCreated handler.
ReadyStep == last'.ev = "ready" /\ now' = now

ButtonStep == last'.ev = "button" /\ now' = now

\* C12 as stated: while businessHoursValue is null neither the chat button nor
\* the Leave a Message button is shown.
C12_NothingShownWhilePending ==
  ~Resolved => ~chatButtonVisible /\ ~offlineButtonVisible

\* C12, amended: while businessHoursValue is null, onEmbeddedMessagingReady, a
\* rejected business-hours event and a failed call of the API leave both
\* buttons as they were, but onEmbeddedMessagingButtonCreated renders with
\* isWithinBusinessHours at its default true: it shows the chat button, or the
\* Leave a Message button when noAgentsAvailable is set.
C12_Pending ==
  [][~Resolved /\ ~Resolved' =>
       /\ ReadyStep \/ WithinStep \/ TimerStep => UNCHANGED ui /\ rendered' = FALSE
       /\ ButtonStep =>
            /\ isWithinBusinessHours = "true" /\ rendered'
            /\ chatButtonVisible' = ~noAgentsAvailable
            /\ offlineButtonVisible' = noAgentsAvailable]_vars

C12_Witness ==
  /\ last.ev = "button" /\ ~Resolved /\ chains # <<>>
  /\ chatButtonVisible /\ ~offlineButtonVisible

\* businessHoursValue is true and noAgentsAvailable is false.
Available == businessHoursValue = "true" /\ ~noAgentsAvailable

\* C13 as stated: after updateChatAvailability has run with businessHoursValue
\* set, the chat button is shown iff the value is true and noAgentsAvailable is
\* false, and the Leave a Message button is shown otherwise.
C13_RenderAsStated ==
  rendered /\ Resolved =>
    /\ chatButtonVisible = Available
    /\ offlineButtonVisible = ~Available

\* C13, amended: after updateChatAvailability has run with businessHoursValue
\* set, the Leave a Message button is shown iff the value is false or
\* noAgentsAvailable is true, and the chat button is shown iff the value is
\* true, noAgentsAvailable is false and the button has been created; a
\* BusinessHoursStarted event arriving with noAgentsAvailable true leaves the
\* Leave a Message button shown and the chat button hidden.
C13_Render ==
  /\ Resolved => isWithinBusinessHours = businessHoursValue
  /\ rendered /\ Resolved =>
       /\ offlineButtonVisible = ~Available
       /\ chatButtonVisible = (utilAPI /\ Available)
  /\ last.ev = "started" /\ noAgentsAvailable =>
       offlineButtonVisible /\ ~chatButtonVisible

C13_Witness ==
  /\ last.ev = "started" /\ noAgentsAvailable /\ utilAPI /\ rendered
  /\ businessHoursValue = "true"
  /\ offlineButtonVisible /\ ~chatButtonVisible

\* A step of the onEmbeddedMessagingSessionStatusUpdate listener.
SessionStep == last'.ev = "session" /\ signal'.status # "none"

\* C14: after launchChat(), a session status update with status Ended and
\* reason NoAgentsAvailable sets noAgentsAvailable and renders: the Leave a
\* Message button is shown and the chat button hidden, whatever
\* businessHoursValue is.
C14_ReactiveDemotion ==
  [][SessionStep /\ chatLaunched
       /\ signal'.status = "Ended" /\ signal'.reason = "NoAgentsAvailable" =>
         /\ noAgentsAvailable' /\ rendered'
         /\ offlineButtonVisible' /\ ~chatButtonVisible'
         /\ UNCHANGED resolver]_vars

C14_Witness ==
  /\ last.ev = "session" /\ signal.launched /\ ~signal.demoted
  /\ signal.status = "Ended" /\ signal.reason = "NoAgentsAvailable"
  /\ signal.routingResult = "success" /\ signal.agentInfo
  /\ businessHoursValue = "true" /\ noAgentsAvailable
  /\ offlineButtonVisible /\ ~chatButtonVisible

\* C15 as stated: after launchChat(), with noAgentsAvailable true, a session
\* status update with status Active and agentInfo present clears
\* noAgentsAvailable, and the chat button is shown if businessHoursValue is
\* true; an update that is not Active with agentInfo present leaves
\* noAgentsAvailable true.
C15_PromotionAsStated ==
  [][SessionStep /\ chatLaunched /\ noAgentsAvailable =>
       IF signal'.status = "Active" /\ signal'.agentInfo
         THEN /\ ~noAgentsAvailable'
              /\ businessHoursValue = "true" =>
                   chatButtonVisible' /\ ~offlineButtonVisible'
         ELSE noAgentsAvailable']_vars

\* C15, amended: a session status update with status Active clears
\* noAgentsAvailable whether or not it carries agentInfo, and renders: with
\* isWithinBusinessHours true the Leave a Message button is hidden and the chat
\* button is shown if it has been created; an update with another status
\* leaves noAgentsAvailable true.
C15_Promotion ==
  [][SessionStep =>
       IF signal'.status = "Active"
         THEN /\ ~noAgentsAvailable' /\ rendered'
              /\ isWithinBusinessHours = "true" =>
                   chatButtonVisible' = utilAPI /\ ~offlineButtonVisible'
         ELSE noAgentsAvailable => noAgentsAvailable']_vars

C15_Witness ==
  /\ last.ev = "session" /\ signal.launched /\ signal.demoted
  /\ signal.status = "Active" /\ ~signal.agentInfo
  /\ businessHoursValue = "true" /\ ~noAgentsAvailable
  /\ chatButtonVisible /\ ~offlineButtonVisible

\* C16: with businessHoursValue true, once the chat is launched and the
\* session has been in the Waiting status for more than 60 s since its Waiting
\* update, noAgentsAvailable is true and the Leave a Message button has
\* replaced the chat button.
C16_WaitingTimeout ==
  /\ businessHoursValue = "true" /\ signal.launched
  /\ signal.status = "Waiting" /\ sessionWait = "expired"
  => noAgentsAvailable /\ offlineButtonVisible /\ ~chatButtonVisible

\* C17: after launchChat(), a session status update with status Ended sets
\* noAgentsAvailable when neither it nor an earlier update of the session
\* carried agentInfo, and leaves noAgentsAvailable as it was when the session
\* was Active with agentInfo and ends with no reason and a successful
\* routingResult.
C17_EndedWithoutAgent ==
  [][SessionStep /\ chatLaunched /\ signal'.status = "Ended" =>
       /\ ~hadAgent' /\ ~signal'.agentInfo => noAgentsAvailable'
       /\ hadAgent' /\ signal'.reason = "undefined"
            /\ signal'.routingResult = "success" =>
              noAgentsAvailable' = noAgentsAvailable]_vars

\* C18: a session status update with status Ended whose routingResult has
\* success === false or agentsAvailable === false sets noAgentsAvailable and
\* shows the Leave a Message button in place of the chat button; one whose
\* routingResult reports success, with no reason and with agentInfo, leaves
\* noAgentsAvailable and both buttons as they were.
C18_RoutingFailure ==
  [][SessionStep /\ signal'.status = "Ended" =>
       /\ signal'.routingResult \in {"success_false", "agentsAvailable_false"} =>
            /\ noAgentsAvailable' /\ rendered'
            /\ offlineButtonVisible' /\ ~chatButtonVisible'
       /\ signal'.routingResult = "success" /\ signal'.reason = "undefined"
            /\ signal'.agentInfo =>
              /\ noAgentsAvailable' = noAgentsAvailable
              /\ UNCHANGED ui /\ rendered' = FALSE]_vars

C18_Witness ==
  /\ last.ev = "session" /\ signal.launched /\ ~signal.demoted
  /\ signal.status = "Ended" /\ signal.routingResult = "agentsAvailable_false"
  /\ signal.reason = "undefined" /\ signal.agentInfo
  /\ businessHoursValue = "true" /\ noAgentsAvailable
  /\ offlineButtonVisible /\ ~chatButtonVisible

\* C19: a session status update that arrives before launchChat() was called
\* changes neither noAgentsAvailable nor the buttons.
C19_InertBeforeLaunch ==
  [][SessionStep /\ ~chatLaunched =>
       noAgentsAvailable' = noAgentsAvailable /\ UNCHANGED ui]_vars

RenderWithoutApi == rendered' /\ ~utilAPI' /\ now' = now /\ last'.ev # "load"

\* C21: when updateChatAvailability runs while utilAPI is missing, the chat
\* button call is skipped and the chat button stays as it was, the Leave a
\* Message button is still shown or hidden as isWithinBusinessHours and
\* noAgentsAvailable say, and the handler's own assignments stand: an
\* availability handler leaves noAgentsAvailable alone and has stored its
\* value, the session handler leaves the business-hours state alone.
C21_RenderFailure ==
  [][RenderWithoutApi =>
       /\ chatButtonVisible' = chatButtonVisible
       /\ offlineButtonVisible' = ~isAvailable(isWithinBusinessHours', noAgentsAvailable')
       /\ last'.ev # "session" =>
            /\ noAgentsAvailable' = noAgentsAvailable
            /\ Resolved' /\ isWithinBusinessHours' = businessHoursValue'
       /\ last'.ev = "session" => UNCHANGED resolver]_vars

C21_Witness ==
  /\ rendered /\ ~utilAPI /\ last.ev = "ended"
  /\ businessHoursValue = "false" /\ ~noAgentsAvailable
  /\ offlineButtonVisible /\ ~chatButtonVisible

C23_BoundedPending ==
  \A i \in DOMAIN chains :
    /\ chains[i].attemptCount = maxAttempts => Resolved
    /\ now > chains[i].start + CumulativeDelays[maxAttempts] => Resolved
    /\ ~Resolved =>
         /\ chains[i].attemptCount < maxAttempts
         /\ chains[i].due = chains[i].start + CumulativeDelays[chains[i].attemptCount + 1]
         /\ now <= chains[i].due

C23_Witness ==
  /\ chains # <<>> /\ FellBack(1) /\ last.arg = "throw"
  /\ now = chains[1].start + CumulativeDelays[maxAttempts]
  /\ businessHoursValue = "true" /\ businessHoursSource = "default_fallback"

\* A handler that changed businessHoursValue.
ResolvedChanges == businessHoursValue' # businessHoursValue /\ now' = now

\* C24 as stated: after a handler that changed businessHoursValue the chat
\* button is shown exactly if businessHoursValue is true and noAgentsAvailable
\* false, and the Leave a Message button exactly if not.
C24_RerenderAsStated ==
  [][ResolvedChanges =>
       chatButtonVisible' = Available' /\ offlineButtonVisible' = ~Available']_vars

\* C24, amended: a handler that changes businessHoursValue calls
\* updateChatAvailability before it returns, with the new value and the
\* noAgentsAvailable it found: the Leave a Message button is then as the two
\* say, and so is the chat button if utilAPI exists; without utilAPI the chat
\* button stays as it was.
C24_Rerender ==
  [][ResolvedChanges =>
       /\ rendered' /\ noAgentsAvailable' = noAgentsAvailable
       /\ isWithinBusinessHours' = businessHoursValue'
       /\ offlineButtonVisible' = ~Available'
       /\ chatButtonVisible' = IF utilAPI THEN Available' ELSE chatButtonVisible]_vars

C24_Witness ==
  /\ chains # <<>> /\ ProbeResolved(1) /\ last.arg = "false"
  /\ utilAPI /\ rendered /\ businessHoursValue = "false"
  /\ offlineButtonVisible /\ ~chatButtonVisible

\* A handler that changed noAgentsAvailable.
FlagChanges == noAgentsAvailable' # noAgentsAvailable /\ now' = now

\* What updateChatAvailability is to show: the chat button.
ShouldShowChat == isWithinBusinessHours = "true" /\ ~noAgentsAvailable

\* C25 as stated: every handler that changes noAgentsAvailable renders, and
\* leaves the Leave a Message button, and the chat button where utilAPI
\* exists, as isWithinBusinessHours and noAgentsAvailable say.
C25_EveryFlagChangeRenders ==
  [][FlagChanges =>
       /\ rendered'
       /\ offlineButtonVisible' = ~ShouldShowChat'
       /\ utilAPI' => chatButtonVisible' = ShouldShowChat']_vars

\* C25, amended: the session status handler renders whenever it sets or resets
\* noAgentsAvailable, and leaves the Leave a Message button, and the chat
\* button where utilAPI exists, as the state says; onEmbeddedMessagingReady
\* resets noAgentsAvailable without rendering and leaves both buttons as they
\* were; no other handler changes noAgentsAvailable.
C25_FlagRerender ==
  [][FlagChanges =>
       IF last'.ev = "ready"
         THEN ~noAgentsAvailable' /\ ~rendered' /\ UNCHANGED ui
         ELSE /\ last'.ev = "session" /\ rendered'
              /\ offlineButtonVisible' = ~ShouldShowChat'
              /\ chatButtonVisible' =
                   IF utilAPI THEN ShouldShowChat' ELSE chatButtonVisible]_vars

C25_Witness ==
  /\ last.ev = "ready" /\ utilAPI /\ Available
  /\ offlineButtonVisible /\ ~chatButtonVisible

\* The step delivers the event that the step before it delivered: the same
\* availability event with the same value, the same session status update
\* with no wait expiring in between, onEmbeddedMessagingButtonCreated or
\* onEmbeddedMessagingReady a second time.
SameEventAgain ==
  /\ last' = last
  /\ last.ev \in {"within", "started", "ended", "button", "ready", "session"}
  /\ last.ev = "within" /\ last.arg = "boolean" => businessHoursValue' = businessHoursValue
  /\ last.ev = "session" => signal'.again

\* C26: a handler that runs a second time on the event it has just handled
\* leaves businessHoursValue, its source, isWithinBusinessHours,
\* noAgentsAvailable and both buttons as the first run left them.
C26_Idempotence ==
  [][SameEventAgain => UNCHANGED <<resolver, noAgentsAvailable, ui>>]_vars

C26_Witness ==
  /\ last.ev = "session" /\ signal.again /\ signal.demoted
  /\ signal.status = "Ended" /\ signal.reason = "NoAgentsAvailable"
  /\ utilAPI /\ businessHoursValue = "true" /\ noAgentsAvailable
  /\ offlineButtonVisible /\ ~chatButtonVisible

\* C27 as stated: noAgentsAvailable is changed only by the session status
\* handler, and businessHoursValue only by the availability events and the
\* polling timers.
C27_FlagOnlyBySession ==
  [][/\ noAgentsAvailable' # noAgentsAvailable => last'.ev = "session"
     /\ resolver' # resolver => last'.ev \in {"within", "started", "ended", "timer"}]_vars

\* C27, amended: businessHoursValue, its source and isWithinBusinessHours are
\* changed only by the availability events and the polling timers, through
\* setBusinessHours; noAgentsAvailable is changed only by the session status
\* handler and by onEmbeddedMessagingReady, which resets it; the session
\* handler and onEmbeddedMessagingReady leave the business-hours state alone,
\* and the availability events, the timers and
\* onEmbeddedMessagingButtonCreated leave noAgentsAvailable alone.
C27_Ownership ==
  [][/\ resolver' # resolver =>
          /\ last'.ev \in {"within", "started", "ended", "timer"}
          /\ isWithinBusinessHours' = businessHoursValue' /\ rendered'
     /\ noAgentsAvailable' # noAgentsAvailable => last'.ev \in {"session", "ready"}
     /\ last'.ev = "ready" /\ now' = now /\ last' # last => ~noAgentsAvailable']_vars

C27_Witness ==
  /\ last.ev = "ready" /\ businessHoursSource = "api" /\ businessHoursValue = "true"
  /\ ~noAgentsAvailable /\ offlineButtonVisible /\ ~rendered

\* A step of hideOfflineForm() on the open form.
CloseStep == last'.ev = "close" /\ offlineFormOpen /\ ~offlineFormOpen'

ConversationStep == last'.ev = "conversation"

C30_PrechatFieldsByMode ==
  hiddenFields # NotSent =>
    IF isAuthenticatedMode
      THEN hiddenFields =
             ("email" :> prechatData.email) @@ ("email_custom" :> prechatData.email)
             @@ ("FirstName" :> prechatData.firstName)
             @@ ("LastName" :> prechatData.lastName)
             @@ ("Subject" :> prechatData.subject)
             @@ ("chat_source__c" :> prechatData.chat_source__c)
      ELSE /\ hiddenFields = ("chat_source__c" :> prechatData.chat_source__c)
           /\ \A data \in PrechatInputs :
                data.chat_source__c = prechatData.chat_source__c =>
                  getHiddenFieldsForMode(FALSE, data) = hiddenFields

\* C31: at every call of launchChat() the hidden prechat fields are
\* getHiddenFieldsForMode() of the authentication mode and the prechatData of
\* that moment, whatever toggles, saves, cancels and widget-ready events came
\* before, also between the click and the call; closing the editor without
\* saving changes neither prechatData nor the hidden fields.
C31_PrechatAtLaunch ==
  [][/\ launchPending /\ ~launchPending' =>
          hiddenFields' = getHiddenFieldsForMode(isAuthenticatedMode', prechatData')
     /\ prechatEditor # Closed /\ last'.ev = "cancel" =>
          UNCHANGED <<prechatData, hiddenFields>>]_vars

C31_Witness ==
  /\ last.ev = "launch" /\ chatLaunched
  /\ isAuthenticatedMode /\ prechatData.email = "other@example.com"
  /\ prechatData.firstName = "Jane"
  /\ hiddenFields = getHiddenFieldsForMode(TRUE, prechatData)

\* A step that clears noAgentsAvailable.
FlagCleared == noAgentsAvailable /\ ~noAgentsAvailable' /\ now' = now

ProducesFallback ==
  \/ businessHoursSource' = "default_fallback" /\ businessHoursSource # "default_fallback"
  \/ /\ TimerStep
     /\ \E i \in DOMAIN chains :
          chains[i].outcome # "fallback" /\ chains'[i].outcome = "fallback"

\* C33: setBusinessHours(true, 'default_fallback') runs only in a step that
\* found businessHoursValue null: the fallback never overwrites a value that an
\* event or an API call has set, however the events and the timers of the
\* chains interleave.
C33_FallbackNeverOverrides ==
  [][ProducesFallback =>
       /\ businessHoursValue = "null" /\ businessHoursSource = "null"
       /\ TimerStep /\ last'.arg \in {"undefined", "throw"}
       /\ businessHoursValue' = fallbackValue
       /\ businessHoursSource' = "default_fallback"]_vars

C33_Witness ==
  /\ last.ev = "timer" /\ businessHoursSource = "default_fallback"
  /\ Len(chains) = 2
  /\ chains[1].outcome = "fallback"
  /\ chains[2].outcome = "running" /\ chains[2].attemptCount = 4
  /\ chains[2].due # NoTimer

\* The chains that set businessHoursValue, from the API or by the fallback.
ProbeDerived == {i \in DOMAIN chains : chains[i].outcome \in {"api", "fallback"}}

\* C34: over the life of the page at most one chain sets businessHoursValue
\* from the API or by the fallback, however many chains run side by side; the
\* source is api or default_fallback only if a chain set it, and a step of a
\* chain that finds the value set makes no call and exits.
C34_SingleProbeResolution ==
  /\ Cardinality(ProbeDerived) <= 1
  /\ businessHoursSource \in {"api", "default_fallback"} => ProbeDerived # {}
  /\ ProbeDerived # {} => Resolved
  /\ \A i \in DOMAIN chains :
       chains[i].outcome = "exit" => Resolved /\ chains[i].due = NoTimer

C34_Witness ==
  /\ Len(chains) = 2
  /\ chains[1].outcome = "api" /\ chains[2].outcome = "exit"
  /\ chains[2].attemptCount = 1 /\ businessHoursSource = "api"

\* C35: businessHoursValue, once set, never becomes null again, and it is null
\* or one of the two booleans in every state, whatever events, API results and
\* session status updates arrive.
C35_MonotoneDefinedness ==
  [][/\ Resolved => Resolved'
     /\ businessHoursValue' \in Booleans \cup {"null"}
     /\ businessHoursValue' # businessHoursValue => businessHoursValue' \in Booleans]_vars

C35_Witness ==
  /\ last.ev = "within" /\ last.arg = "other"
  /\ businessHoursValue = "true" /\ businessHoursSource = "default_fallback"
  /\ noAgentsAvailable

\* C36: while the offline form is expanded the Leave a Message button is
\* hidden, also after a business-hours event or a session status update has
\* run updateChatAvailability with the form open.
C36_FormHidesButton == offlineFormOpen => ~offlineButtonVisible

\* The await of the fetch in submitOfflineForm ends with `outcomes`.
FetchStep(outcomes) ==
  last'.ev = "fetch" /\ last'.arg \in outcomes /\ submission.fetch /\ ~submission'.fetch

\* C37 as stated: whenever the Web-to-Case submission fails, the submit button
\* is enabled again with its label and the form stays open with the data
\* entered.
C37_EveryFailureAllowsRetry ==
  [][FetchStep({"refused", "network_error"}) =>
       /\ ~submission'.disabled /\ submission'.label = "Submit"
       /\ ~submission'.success
       /\ submission'.filled = submission.filled
       /\ offlineFormOpen' = offlineFormOpen]_vars

\* C37, amended: when the fetch rejects, the submit button is enabled again
\* with its label and the form is left as it was, open or closed, with the data
\* entered; a request that Salesforce refuses ends like one that created the
\* case, with the success message and the timers; the button is disabled
\* exactly while it reads "Sending...", and then the fetch or the 3 s timer
\* that enables it is pending.
C37_SubmissionFailure ==
  [][/\ FetchStep({"network_error"}) =>
          /\ ~submission'.disabled /\ submission'.label = "Submit"
          /\ ~submission'.success /\ ~submission'.resetTimer
          /\ submission'.filled = submission.filled
          /\ offlineFormOpen' = offlineFormOpen
     /\ FetchStep({"created", "refused"}) =>
          /\ submission'.success /\ submission'.resetTimer /\ submission'.hideTimer
          /\ submission'.disabled
     /\ submission'.disabled = (submission'.label = "Sending...")
     /\ submission'.disabled => submission'.fetch \/ submission'.resetTimer]_vars

C37_Witness ==
  /\ last.ev = "fetch" /\ last.arg = "network_error"
  /\ offlineFormOpen /\ submission.filled
  /\ ~submission.disabled /\ submission.label = "Submit"
  /\ ~submission.success /\ submission.hideTimer

\* The messaging event of each dispatching handler of the header.
EventOf(ev) ==
  IF ev = "minimize" THEN "MINIMIZE_CONVERSATION"
  ELSE IF ev = "closeConversation" THEN "CLOSE_CONVERSATION"
  ELSE "END_CONVERSATION"

\* C38: after handleMinimize, handleClose and handleEndConversation showMenu
\* is false whatever it was, and exactly one messaging event, of the handler's
\* type, has been dispatched; handleMenuClick negates showMenu and dispatches
\* nothing, and a second click right after a first one restores showMenu.
C38_HeaderMenu ==
  [][/\ last'.ev \in {"minimize", "closeConversation", "endConversation"} =>
          /\ ~header'.showMenu
          /\ header'.dispatched = Append(header.dispatched, EventOf(last'.ev))
     /\ last'.ev = "menu" =>
          /\ header'.showMenu = ~header.showMenu
          /\ header'.dispatched = header.dispatched
     /\ last.ev = "menu" /\ last'.ev = "menu" =>
          header'.showMenu = (last.arg = "open")]_vars

C38_Witness ==
  /\ last.ev = "minimize" /\ last.arg = "open" /\ ~header.showMenu
  /\ header.dispatched = <<"END_CONVERSATION", "CLOSE_CONVERSATION", "MINIMIZE_CONVERSATION">>

\* The source of the boolean the step called setBusinessHours with, "none"
\* when the step made no such call.
AcceptedSource ==
  IF now' # now THEN "none"
  ELSE IF last'.ev = "within"
    THEN IF last'.arg = "boolean" THEN "event" ELSE "none"
  ELSE IF last'.ev = "started" THEN "hours_started_event"
  ELSE IF last'.ev = "ended" THEN "hours_ended_event"
  ELSE IF last'.ev = "timer"
    THEN IF last'.arg \in Booleans THEN "api"
         ELSE IF \E i \in DOMAIN chains :
                   chains[i].outcome # "fallback" /\ chains'[i].outcome = "fallback"
           THEN "default_fallback"
           ELSE "none"
  ELSE "none"

\* C39 as stated: the recorded source is that of the Signal that most recently
\* changed the value, so a step that leaves businessHoursValue as it was leaves
\* businessHoursSource as it was.
C39_SourceOfLastChange ==
  [][businessHoursValue' = businessHoursValue =>
       businessHoursSource' = businessHoursSource]_vars

\* C39, amended: the recorded source is that of the Signal accepted most
\* recently, whether or not it changed the value: every accepted boolean
\* assigns value and source together, every other step (a rejected Signal
\* included) leaves both alone, and one is set exactly when the other is.
C39_SourceProvenance ==
  [][/\ IF AcceptedSource = "none"
          THEN UNCHANGED resolver
          ELSE /\ businessHoursSource' = AcceptedSource
               /\ businessHoursValue' \in Booleans
               /\ isWithinBusinessHours' = businessHoursValue'
     /\ (businessHoursValue' = "null") = (businessHoursSource' = "null")]_vars

C39_Witness ==
  /\ businessHoursValue = "false" /\ businessHoursSource = "event"
  /\ last.ev = "within" /\ last.arg = "boolean"
  /\ \E i \in DOMAIN chains : chains[i].outcome = "api"
====
